---- MODULE Spec2Model ----
(***************************************************************************)
(* Model of zip.py: N zsh history files are parsed into records            *)
(* (linereader), merged by timestamp with duplicate suppression            *)
(* (zipreaders, dedupenext, myhash) and written back (linewriter).         *)
(*                                                                         *)
(* Text is a sequence of one-character strings.  A file is the sequence of *)
(* its physical lines, each already stripped of its line terminator, as    *)
(* the loop "for line in f: line = line.rstrip('\n')" sees them.           *)
(***************************************************************************)
EXTENDS Integers, Sequences, FiniteSets, TLC

(* ----------------------------- bounds ---------------------------------- *)
NumSources == 2
MaxTotalLines == 3
MaxSelfLines == 3
MaxFairLines == 2

(* ---------------------------- characters ------------------------------- *)
BS == "\\"
NL == "\n"
None == <<>>
Inf == -1

Digits == {"0", "1", "2", "3", "4", "5", "6", "7", "8", "9"}

DigitVal(c) ==
  CASE c = "0" -> 0 [] c = "1" -> 1 [] c = "2" -> 2 [] c = "3" -> 3
    [] c = "4" -> 4 [] c = "5" -> 5 [] c = "6" -> 6 [] c = "7" -> 7
    [] c = "8" -> 8 [] c = "9" -> 9

\* str.endswith('\\')
endswith(s, c) == Len(s) > 0 /\ s[Len(s)] = c

\* int(datetime): the decimal value of a non-empty digit string
RECURSIVE int(_)
int(s) ==
  IF Len(s) = 0 THEN 0
  ELSE 10 * int(SubSeq(s, 1, Len(s) - 1)) + DigitVal(s[Len(s)])

(* ------------------------------ zh_line_re ----------------------------- *)
\* index of the first character at or after i that is not a digit
DigitsEnd(line, i) ==
  IF \E j \in i..Len(line) : line[j] \notin Digits
  THEN CHOOSE j \in i..Len(line) :
         /\ line[j] \notin Digits
         /\ \A k \in i..(j - 1) : line[k] \in Digits
  ELSE Len(line) + 1

\* zh_line_re.match(line): None, or the groups (datetime, exetime, contents)
zh_line_re(line) ==
  IF Len(line) >= 2 /\ line[1] = ":" /\ line[2] = " "
  THEN LET a == DigitsEnd(line, 3) IN
       IF a > 3 /\ a <= Len(line) /\ line[a] = ":"
       THEN LET b == DigitsEnd(line, a + 1) IN
            IF /\ b > a + 1 /\ b <= Len(line) /\ line[b] = ";"
               /\ \A k \in (b + 1)..Len(line) : line[k] # NL
            THEN << SubSeq(line, 3, a - 1),
                    SubSeq(line, a + 1, b - 1),
                    SubSeq(line, b + 1, Len(line)) >>
            ELSE None
       ELSE None
  ELSE None

(* ------------------------------ linereader ----------------------------- *)
\* the generator's local variables before the first line is read
ReaderInit ==
  [continuation |-> FALSE, lno |-> 0,
   datetime |-> <<>>, exetime |-> <<>>, contents |-> <<>>]

\* ContinuationLine that ends the continuation after one line, whether or
\* not that line ends with a backslash
ContinuationLineOnce(st, line) ==
  LET c == st.contents \o <<NL>> \o line IN
  [st    |-> [st EXCEPT !.lno = st.lno + 1, !.contents = c,
                        !.continuation = FALSE],
   yield |-> <<st.datetime, st.exetime, c>>,
   fail  |-> FALSE]

\* ContinuationLine that reads a doubled backslash at the end of a line as
\* an escaped backslash, which does not continue the record
ContinuationLineEscaped(st, line) ==
  LET c == st.contents \o <<NL>> \o line
      goeson == /\ endswith(line, BS)
                /\ ~(Len(line) >= 2 /\ line[Len(line) - 1] = BS)
  IN
  IF ~goeson
  THEN [st    |-> [st EXCEPT !.lno = st.lno + 1, !.contents = c,
                             !.continuation = FALSE],
        yield |-> <<st.datetime, st.exetime, c>>,
        fail  |-> FALSE]
  ELSE [st    |-> [st EXCEPT !.lno = st.lno + 1, !.contents = c],
        yield |-> None,
        fail  |-> FALSE]

\* a line being read while the parser is in continuation mode:
\* the line is appended to the accumulated contents after a newline
ContinuationLine(st, line) ==
  LET c == st.contents \o <<NL>> \o line IN
  IF ~endswith(line, BS)
  THEN [st    |-> [st EXCEPT !.lno = st.lno + 1, !.contents = c,
                             !.continuation = FALSE],
        yield |-> <<st.datetime, st.exetime, c>>,
        fail  |-> FALSE]
  ELSE [st    |-> [st EXCEPT !.lno = st.lno + 1, !.contents = c],
        yield |-> None,
        fail  |-> FALSE]

\* HeaderLine that removes the trailing backslash from contents when it
\* enters continuation mode
HeaderLineStrip(st, line) ==
  LET m == zh_line_re(line) IN
  IF m = None
  THEN [st    |-> [st EXCEPT !.lno = st.lno + 1],
        yield |-> None,
        fail  |-> TRUE]
  ELSE IF endswith(m[3], BS)
  THEN [st    |-> [continuation |-> TRUE,
                   lno          |-> st.lno + 1,
                   datetime     |-> m[1],
                   exetime      |-> m[2],
                   contents     |-> SubSeq(m[3], 1, Len(m[3]) - 1)],
        yield |-> None,
        fail  |-> FALSE]
  ELSE [st    |-> [continuation |-> FALSE,
                   lno          |-> st.lno + 1,
                   datetime     |-> m[1],
                   exetime      |-> m[2],
                   contents     |-> m[3]],
        yield |-> <<m[1], m[2], m[3]>>,
        fail  |-> FALSE]

\* a line being read while the parser is not in continuation mode
HeaderLine(st, line) ==
  LET m == zh_line_re(line) IN
  IF m = None
  THEN [st    |-> [st EXCEPT !.lno = st.lno + 1],
        yield |-> None,
        fail  |-> TRUE]
  ELSE LET s2 == [continuation |-> endswith(m[3], BS),
                  lno          |-> st.lno + 1,
                  datetime     |-> m[1],
                  exetime      |-> m[2],
                  contents     |-> m[3]] IN
       [st    |-> s2,
        yield |-> IF s2.continuation THEN None ELSE <<m[1], m[2], m[3]>>,
        fail  |-> FALSE]

\* one iteration of the loop "for line in f" of linereader
linereader_line(st, line) ==
  IF st.continuation THEN ContinuationLine(st, line) ELSE HeaderLine(st, line)

\* linereader run over a whole sequence of physical lines: the records it
\* yields, and whether it ends with an assertion failure
RECURSIVE linereader(_, _, _)
linereader(lines, st, acc) ==
  IF Len(lines) = 0
  THEN [recs |-> acc, fail |-> st.continuation]
  ELSE LET r == linereader_line(st, Head(lines)) IN
       IF r.fail THEN [recs |-> acc, fail |-> TRUE]
       ELSE linereader(Tail(lines), r.st,
                       IF r.yield = None THEN acc ELSE Append(acc, r.yield))

(* ------------------------------ linewriter ----------------------------- *)
\* linewriter without the "\n" of the format string
linewriterNoNewline(rec) ==
  <<":", " ">> \o rec[1] \o <<":">> \o rec[2] \o <<";">> \o rec[3]

\* ": %s:%s;%s\n" % (d, e, c)
linewriter(rec) ==
  <<":", " ">> \o rec[1] \o <<":">> \o rec[2] \o <<";">> \o rec[3] \o <<NL>>

\* the physical lines of a text, as file iteration and rstrip("\n") give them
RECURSIVE SplitLines(_, _, _)
SplitLines(text, cur, acc) ==
  IF Len(text) = 0
  THEN IF Len(cur) = 0 THEN acc ELSE Append(acc, cur)
  ELSE IF Head(text) = NL
       THEN SplitLines(Tail(text), <<>>, Append(acc, cur))
       ELSE SplitLines(Tail(text), Append(cur, Head(text)), acc)

(* -------------------------------- myhash ------------------------------- *)
\* repr() of a str: quoted, backslash and newline escaped
RECURSIVE ReprStr(_)
ReprStr(s) ==
  IF Len(s) = 0 THEN <<>>
  ELSE (IF Head(s) = BS THEN <<BS, BS>>
        ELSE IF Head(s) = NL THEN <<BS, "n">>
        ELSE <<Head(s)>>) \o ReprStr(Tail(s))

\* repr() of a 3-tuple of str
Repr(obj) ==
  <<"(", "'">> \o ReprStr(obj[1]) \o <<"'", ",", " ", "'">>
    \o ReprStr(obj[2]) \o <<"'", ",", " ", "'">>
    \o ReprStr(obj[3]) \o <<"'", ")">>

\* myhash over the integer values of datetime and exetime
myhashInt(obj) ==
  IF obj = None THEN None
  ELSE <<"(">> \o <<int(obj[1]), int(obj[2])>> \o ReprStr(obj[3])

\* myhash(obj): the digest of repr(obj); the digest is taken to be free of
\* collisions, so it is represented by the bytes it is computed from
myhash(obj) == IF obj = None THEN None ELSE Repr(obj)

(* ------------------------------ zipreaders ----------------------------- *)
\* the scan "for i, r in enumerate(nexts)" that selects the slot to emit
RECURSIVE LowestScan(_, _, _, _)
LowestScan(slots, i, lowest, sel) ==
  IF i > Len(slots) THEN sel
  ELSE IF slots[i] = None THEN LowestScan(slots, i + 1, lowest, sel)
  ELSE IF lowest = Inf \/ int(slots[i][1]) < lowest
       THEN LowestScan(slots, i + 1, int(slots[i][1]), i)
       ELSE LowestScan(slots, i + 1, lowest, sel)

\* LowestScan with "<=" for "<": the last of the lowest slots is selected
LowestIdxLastWins(slots) ==
  IF \A i \in 1..Len(slots) : slots[i] = None THEN 0
  ELSE CHOOSE i \in 1..Len(slots) :
         /\ slots[i] # None
         /\ \A j \in 1..Len(slots) : slots[j] # None =>
               /\ int(slots[i][1]) <= int(slots[j][1])
               /\ (int(slots[i][1]) = int(slots[j][1]) => j <= i)

\* LowestScan without "lowest = int(datetime)": every non-empty slot
\* compares below infinity, so the last non-empty slot is selected
LowestIdxNoUpdate(slots) ==
  IF \A i \in 1..Len(slots) : slots[i] = None THEN 0
  ELSE CHOOSE i \in 1..Len(slots) :
         slots[i] # None /\ \A j \in (i + 1)..Len(slots) : slots[j] = None

\* LowestScan without the comparison of timestamps: the first non-empty
\* slot is selected
LowestIdxFirstNonEmpty(slots) ==
  IF \A i \in 1..Len(slots) : slots[i] = None THEN 0
  ELSE CHOOSE i \in 1..Len(slots) :
         slots[i] # None /\ \A j \in 1..(i - 1) : slots[j] = None

LowestIdx(slots) == LowestScan(slots, 1, Inf, 0)

(* ------------------------------- inputs -------------------------------- *)
Lines ==
  { <<":", " ", "9", ":", "0", ";", "a">>,
    <<":", " ", "1", "0", ":", "0", ";", "a">>,
    <<":", " ", "0", "9", ":", "0", ";", "a">>,
    <<":", " ", "9", ":", "1", ";", "a">>,
    <<":", " ", "9", ":", "0", ";", "a", BS>>,
    <<BS, BS>> }

\* the lines of the files that are also given compressed or unreadable
StoredLines ==
  { <<":", " ", "9", ":", "0", ";", "a">>,
    <<":", " ", "9", ":", "0", ";", "a", BS>>,
    <<BS, BS>> }

FilesUpTo(n) == UNION { [1..k -> Lines] : k \in 0..n }

\* every way to give n files at most budget physical lines in total
RECURSIVE Alloc(_, _)
Alloc(n, budget) ==
  IF n = 0 THEN { <<>> }
  ELSE UNION { { <<f>> \o rest : rest \in Alloc(n - 1, budget - Len(f)) }
               : f \in FilesUpTo(budget) }

StoredFilesUpTo(n) == UNION { [1..k -> StoredLines] : k \in 0..n }

RECURSIVE AllocStored(_, _)
AllocStored(n, budget) ==
  IF n = 0 THEN { <<>> }
  ELSE UNION { { <<f>> \o rest : rest \in AllocStored(n - 1, budget - Len(f)) }
               : f \in StoredFilesUpTo(budget) }

(* ------------------------------ filereader ----------------------------- *)
Magic == "Z"

\* the text of a file: every physical line followed by its line terminator
RECURSIVE JoinLines(_)
JoinLines(lines) ==
  IF Len(lines) = 0 THEN <<>>
  ELSE Head(lines) \o <<NL>> \o JoinLines(Tail(lines))

\* a compressed frame: the magic header, then the text in coded units
Compress(text) == <<Magic>> \o [k \in 1..Len(text) |-> <<text[k]>>]

\* the bytes of a file holding the given lines, stored plain or compressed
StoredBytes(lines, how) ==
  IF how = "zstd" THEN Compress(JoinLines(lines)) ELSE JoinLines(lines)

\* dctx.stream_reader(bf) read to its end with bf at offset pos: the header
\* must be found at pos (ZstdError otherwise), the units after it are decoded
Decompress(bytes, pos) ==
  IF pos < Len(bytes) /\ bytes[pos + 1] = Magic
  THEN [ok |-> TRUE,
        text |-> [k \in 1..(Len(bytes) - pos - 1) |-> bytes[pos + 1 + k][1]]]
  ELSE IF pos >= Len(bytes)
  THEN [ok |-> TRUE, text |-> <<>>]
  ELSE [ok |-> FALSE, text |-> <<>>]

\* the offset of bf after reader.read(1): the files here are shorter than
\* one read of the decompressor, which takes them whole
AfterRead(bytes) == Len(bytes)

\* filereader without "bf.seek(0, os.SEEK_SET)"
filereaderNoSeek(bytes) ==
  (IF Decompress(bytes, 0).ok
   THEN { [path |-> "zstd",
           text |-> Decompress(bytes, AfterRead(bytes)).text,
           opened |-> {"bf", "reader", "text"}] }
   ELSE {})
  \cup
  (IF bytes = <<>> \/ ~Decompress(bytes, 0).ok
   THEN { [path |-> "plain", text |-> bytes, opened |-> {"text"}] }
   ELSE {})

\* filereader(filename) for a file that can be opened: the text the returned
\* stream yields and the handles it leaves open.  read(1) succeeds: the first
\* reader is closed, bf is rewound and wrapped again.  read(1) raises
\* ZstdError: bf is closed and the file is opened as text.  Whether read(1)
\* raises on a file of no bytes is left open: both paths are outcomes.
filereader(bytes) ==
  (IF Decompress(bytes, 0).ok
   THEN { [path |-> "zstd",
           text |-> Decompress(bytes, 0).text,
           opened |-> {"bf", "reader", "text"}] }
   ELSE {})
  \cup
  (IF bytes = <<>> \/ ~Decompress(bytes, 0).ok
   THEN { [path |-> "plain", text |-> bytes, opened |-> {"text"}] }
   ELSE {})

(* -------------------------------- state -------------------------------- *)
VARIABLES
  files,    \* files[i]: the physical lines of the i-th argument
  rd,       \* rd[i]: the local variables of the generator linereader(argv[i])
  nexts,    \* zipreaders: the pending head of each source, or None
  dups,     \* zipreaders: the hashes seen
  phase,    \* zipreaders: "init" in the first loop, "loop" in the second
  idx,      \* the slot dedupenext is filling
  x,        \* dedupenext: the value next(rdr, None) returned
  pc,       \* "next", "check", "select", "done", "failed"
  out,      \* the records zipreaders has yielded, with their source
  written,  \* the text written to sys.stdout
  err,      \* the assertion that failed, or None
  pulled,   \* pulled[i]: the records linereader i has yielded, with the
            \* numbers of the first and last physical line of each
  hdr,      \* hdr[i]: the number of the last line linereader i matched
            \* against zh_line_re
  store,    \* store[i]: "plain", "zstd", or "missing" (cannot be opened)
  stream,   \* stream[i]: the physical lines the stream of filereader yields
  gen,      \* gen[i]: "created", "suspended", "finished" or "raised"
  handles   \* the open handles, as pairs <<source, kind>>

vars ==
  <<files, rd, nexts, dups, phase, idx, x, pc, out, written, err, pulled, hdr,
    store, stream, gen, handles>>

Sources == 1..NumSources

\* the state of zipreaders and of the generators before the first next()
Start ==
  /\ rd = [i \in Sources |-> ReaderInit]
  /\ nexts = [i \in Sources |-> None]
  /\ dups = {}
  /\ phase = "init"
  /\ idx = 1
  /\ x = None
  /\ pc = "next"
  /\ out = <<>>
  /\ written = <<>>
  /\ err = None
  /\ pulled = [i \in Sources |-> <<>>]
  /\ hdr = [i \in Sources |-> 0]
  /\ stream = [i \in Sources |-> <<>>]
  /\ gen = [i \in Sources |-> "created"]
  /\ handles = {}

\* plain files over all lines, or files over StoredLines stored in any way
Init ==
  /\ \/ /\ files \in Alloc(NumSources, MaxTotalLines)
        /\ store = [i \in Sources |-> "plain"]
     \/ /\ files \in AllocStored(NumSources, MaxTotalLines)
        /\ store \in [Sources -> {"plain", "zstd", "missing"}]
  /\ Start

(* ------------------------- linereader, stepwise ------------------------ *)
\* the first next(rdr) starts the generator: "with filereader(filename)"
\* opens the file and decides how it is stored
OpenFile ==
  /\ pc = "next"
  /\ gen[idx] = "created"
  /\ store[idx] # "missing"
  /\ \E o \in filereader(StoredBytes(files[idx], store[idx])) :
       /\ stream' = [stream EXCEPT ![idx] = SplitLines(o.text, <<>>, <<>>)]
       /\ handles' = handles \cup { <<idx, k>> : k \in o.opened }
  /\ gen' = [gen EXCEPT ![idx] = "suspended"]
  /\ UNCHANGED <<files, store, rd, nexts, dups, phase, idx, x, pc, out,
                 written, err, pulled, hdr>>

\* open(filename, "rb") raises: the exception leaves the generator and
\* nothing catches it
OpenFails ==
  /\ pc = "next"
  /\ gen[idx] = "created"
  /\ store[idx] = "missing"
  /\ gen' = [gen EXCEPT ![idx] = "raised"]
  /\ err' = [kind |-> "io", file |-> idx, line |-> 0]
  /\ pc' = "failed"
  /\ UNCHANGED <<files, store, rd, nexts, dups, phase, idx, x, out, written,
                 pulled, hdr, stream, handles>>

\* leaving the "with" block closes the text stream, which closes the
\* decompressing reader it wraps; that reader does not close bf
WithExit(i) == handles \ { <<i, "text">>, <<i, "reader">> }

\* next(rdr) has resumed generator idx and it yields rec
Yield(rec, lno) ==
  /\ x' = rec
  /\ pc' = "check"
  /\ pulled' = [pulled EXCEPT ![idx] =
                  Append(@, [rec |-> rec, first |-> hdr'[idx], last |-> lno])]

\* the generator reads a line that matches zh_line_re
ReadHeader ==
  /\ pc = "next"
  /\ gen[idx] = "suspended"
  /\ ~rd[idx].continuation
  /\ rd[idx].lno < Len(stream[idx])
  /\ LET r == linereader_line(rd[idx], stream[idx][rd[idx].lno + 1]) IN
       /\ ~r.fail
       /\ rd' = [rd EXCEPT ![idx] = r.st]
       /\ hdr' = [hdr EXCEPT ![idx] = r.st.lno]
       /\ IF r.yield = None
          THEN UNCHANGED <<x, pc, pulled>>
          ELSE Yield(r.yield, r.st.lno)
  /\ UNCHANGED <<files, store, nexts, dups, phase, idx, out, written, err,
                 stream, gen, handles>>

\* ReadNonMatch reporting the number of lines read before the line
ReadNonMatchZeroBased ==
  /\ pc = "next"
  /\ gen[idx] = "suspended"
  /\ ~rd[idx].continuation
  /\ rd[idx].lno < Len(stream[idx])
  /\ LET r == linereader_line(rd[idx], stream[idx][rd[idx].lno + 1]) IN
       /\ r.fail
       /\ rd' = [rd EXCEPT ![idx] = r.st]
       /\ hdr' = [hdr EXCEPT ![idx] = r.st.lno]
       /\ err' = [kind |-> "non-match", file |-> idx, line |-> rd[idx].lno]
       /\ pc' = "failed"
  /\ gen' = [gen EXCEPT ![idx] = "raised"]
  /\ handles' = WithExit(idx)
  /\ UNCHANGED <<files, store, nexts, dups, phase, idx, x, out, written,
                 pulled, stream>>

\* ReadNonMatch that reports the line and goes on with the next line
ReadNonMatchSkip ==
  /\ pc = "next"
  /\ gen[idx] = "suspended"
  /\ ~rd[idx].continuation
  /\ rd[idx].lno < Len(stream[idx])
  /\ LET r == linereader_line(rd[idx], stream[idx][rd[idx].lno + 1]) IN
       /\ r.fail
       /\ rd' = [rd EXCEPT ![idx] = r.st]
       /\ hdr' = [hdr EXCEPT ![idx] = r.st.lno]
       /\ err' = [kind |-> "non-match", file |-> idx, line |-> r.st.lno]
       /\ pc' = pc
  /\ UNCHANGED <<files, store, nexts, dups, phase, idx, x, out, written,
                 pulled, stream, gen, handles>>

\* the generator reads a line that does not match: "assert m" fails, the
\* exception leaves the "with" block and the generator
ReadNonMatch ==
  /\ pc = "next"
  /\ gen[idx] = "suspended"
  /\ ~rd[idx].continuation
  /\ rd[idx].lno < Len(stream[idx])
  /\ LET r == linereader_line(rd[idx], stream[idx][rd[idx].lno + 1]) IN
       /\ r.fail
       /\ rd' = [rd EXCEPT ![idx] = r.st]
       /\ hdr' = [hdr EXCEPT ![idx] = r.st.lno]
       /\ err' = [kind |-> "non-match", file |-> idx, line |-> r.st.lno]
       /\ pc' = "failed"
  /\ gen' = [gen EXCEPT ![idx] = "raised"]
  /\ handles' = WithExit(idx)
  /\ UNCHANGED <<files, store, nexts, dups, phase, idx, x, out, written,
                 pulled, stream>>

\* the generator reads a line in continuation mode
ReadContinuation ==
  /\ pc = "next"
  /\ gen[idx] = "suspended"
  /\ rd[idx].continuation
  /\ rd[idx].lno < Len(stream[idx])
  /\ LET r == linereader_line(rd[idx], stream[idx][rd[idx].lno + 1]) IN
       /\ rd' = [rd EXCEPT ![idx] = r.st]
       /\ hdr' = hdr
       /\ IF r.yield = None
          THEN UNCHANGED <<x, pc, pulled>>
          ELSE Yield(r.yield, r.st.lno)
  /\ UNCHANGED <<files, store, nexts, dups, phase, idx, out, written, err,
                 stream, gen, handles>>

\* the file ends with no pending continuation: the "with" block is left,
\* the generator returns and next(rdr, None) gives None
EndOfFile ==
  /\ pc = "next"
  /\ gen[idx] = "suspended"
  /\ rd[idx].lno = Len(stream[idx])
  /\ ~linereader(<<>>, rd[idx], <<>>).fail
  /\ x' = None
  /\ pc' = "check"
  /\ gen' = [gen EXCEPT ![idx] = "finished"]
  /\ handles' = WithExit(idx)
  /\ UNCHANGED <<files, store, rd, nexts, dups, phase, idx, out, written, err,
                 pulled, hdr, stream>>

\* IncompleteContinuation without the assertion: the generator returns
IncompleteContinuationReturns ==
  /\ pc = "next"
  /\ gen[idx] = "suspended"
  /\ rd[idx].lno = Len(stream[idx])
  /\ linereader(<<>>, rd[idx], <<>>).fail
  /\ x' = None
  /\ pc' = "check"
  /\ gen' = [gen EXCEPT ![idx] = "finished"]
  /\ handles' = WithExit(idx)
  /\ UNCHANGED <<files, store, rd, nexts, dups, phase, idx, out, written, err,
                 pulled, hdr, stream>>

\* the file ends in continuation mode: the "with" block is left and
\* "assert not continuation" fails
IncompleteContinuation ==
  /\ pc = "next"
  /\ gen[idx] = "suspended"
  /\ rd[idx].lno = Len(stream[idx])
  /\ linereader(<<>>, rd[idx], <<>>).fail
  /\ err' = [kind |-> "incomplete", file |-> idx, line |-> 0]
  /\ pc' = "failed"
  /\ gen' = [gen EXCEPT ![idx] = "raised"]
  /\ handles' = WithExit(idx)
  /\ UNCHANGED <<files, store, rd, nexts, dups, phase, idx, x, out, written,
                 pulled, hdr, stream>>

(* ------------------------------ dedupenext ----------------------------- *)
\* Return that starts the second loop as soon as one slot is filled
ReturnAfterFirst ==
  /\ idx' = idx
  /\ pc' = "select"
  /\ phase' = "loop"

\* dedupenext returns to zipreaders: the first loop goes on to the next
\* reader, and after the last reader the second loop starts
Return ==
  IF phase = "init" /\ idx < NumSources
  THEN /\ idx' = idx + 1
       /\ pc' = "next"
       /\ phase' = phase
  ELSE /\ idx' = idx
       /\ pc' = "select"
       /\ phase' = "loop"

\* DedupeExhausted without "nexts[idx] = x"
DedupeExhaustedKeepsSlot ==
  /\ pc = "check"
  /\ x = None
  /\ nexts' = nexts
  /\ Return
  /\ UNCHANGED <<files, store, rd, dups, x, out, written, err, pulled, hdr,
                 stream, gen, handles>>

\* x is None: the reader is exhausted, the slot becomes None
DedupeExhausted ==
  /\ pc = "check"
  /\ x = None
  /\ nexts' = [nexts EXCEPT ![idx] = x]
  /\ Return
  /\ UNCHANGED <<files, store, rd, dups, x, out, written, err, pulled, hdr,
                 stream, gen, handles>>

\* DedupeSkip that stores x although its hash is in dups
DedupeSkipStores ==
  /\ pc = "check"
  /\ x # None
  /\ myhash(x) \in dups
  /\ nexts' = [nexts EXCEPT ![idx] = x]
  /\ Return
  /\ UNCHANGED <<files, store, rd, dups, x, out, written, err, pulled, hdr,
                 stream, gen, handles>>

\* "while h in dups": x is discarded and the next item is asked for
DedupeSkip ==
  /\ pc = "check"
  /\ x # None
  /\ myhash(x) \in dups
  /\ pc' = "next"
  /\ UNCHANGED <<files, store, rd, nexts, dups, phase, idx, x, out, written,
                 err, pulled, hdr, stream, gen, handles>>

\* DedupeStore without "dups.add(h)"
DedupeStoreNoAdd ==
  /\ pc = "check"
  /\ x # None
  /\ myhash(x) \notin dups
  /\ dups' = dups
  /\ nexts' = [nexts EXCEPT ![idx] = x]
  /\ Return
  /\ UNCHANGED <<files, store, rd, x, out, written, err, pulled, hdr,
                 stream, gen, handles>>

\* x is new: its hash is added to dups and x becomes the pending head
DedupeStore ==
  /\ pc = "check"
  /\ x # None
  /\ myhash(x) \notin dups
  /\ dups' = dups \cup {myhash(x)}
  /\ nexts' = [nexts EXCEPT ![idx] = x]
  /\ Return
  /\ UNCHANGED <<files, store, rd, x, out, written, err, pulled, hdr,
                 stream, gen, handles>>

(* ------------------------- zipreaders, main loop ----------------------- *)
\* Finish with "any slot is None" for "all slots are None"
FinishOnAnyEmpty ==
  /\ pc = "select"
  /\ \E i \in Sources : nexts[i] = None
  /\ pc' = "done"
  /\ UNCHANGED <<files, store, rd, nexts, dups, phase, idx, x, out, written,
                 err, pulled, hdr, stream, gen, handles>>

\* "No input remaining?": the loop breaks and the run ends
Finish ==
  /\ pc = "select"
  /\ \A i \in Sources : nexts[i] = None
  /\ pc' = "done"
  /\ UNCHANGED <<files, store, rd, nexts, dups, phase, idx, x, out, written,
                 err, pulled, hdr, stream, gen, handles>>

\* Emit that refills the slot of the loop variable i left by the scan, the
\* last slot, instead of slot idx
EmitRefillsLast ==
  /\ pc = "select"
  /\ \E i \in Sources : nexts[i] # None
  /\ LET sel == LowestIdx(nexts) IN
       /\ idx' = NumSources
       /\ out' = Append(out, [rec |-> nexts[sel], src |-> sel])
       /\ written' = written \o linewriter(nexts[sel])
  /\ pc' = "next"
  /\ UNCHANGED <<files, store, rd, nexts, dups, phase, x, err, pulled, hdr,
                 stream, gen, handles>>

\* the slot with the lowest timestamp is yielded, linewriter writes it, and
\* dedupenext is called to refill the slot
Emit ==
  /\ pc = "select"
  /\ \E i \in Sources : nexts[i] # None
  /\ LET sel == LowestIdx(nexts) IN
       /\ idx' = sel
       /\ out' = Append(out, [rec |-> nexts[sel], src |-> sel])
       /\ written' = written \o linewriter(nexts[sel])
  /\ pc' = "next"
  /\ UNCHANGED <<files, store, rd, nexts, dups, phase, x, err, pulled, hdr,
                 stream, gen, handles>>

Next ==
  \/ OpenFile
  \/ OpenFails
  \/ ReadHeader
  \/ ReadNonMatch
  \/ ReadContinuation
  \/ EndOfFile
  \/ IncompleteContinuation
  \/ DedupeExhausted
  \/ DedupeSkip
  \/ DedupeStore
  \/ Finish
  \/ Emit

Spec == Init /\ [][Next]_vars

\* plain or unreadable files over StoredLines
FairInit ==
  /\ files \in AllocStored(NumSources, MaxFairLines)
  /\ store \in [Sources -> {"plain", "missing"}]
  /\ Start

\* the one thread of the program goes on running until the run has ended
FairSpec == FairInit /\ [][Next]_vars /\ WF_vars(Next)

\* "zip.py F F": every argument names the same file
InitSelf ==
  /\ \E F \in FilesUpTo(MaxSelfLines) : files = [i \in Sources |-> F]
  /\ \E how \in {"plain", "zstd", "missing"} : store = [i \in Sources |-> how]
  /\ Start

SpecSelf == InitSelf /\ [][Next]_vars

(* ----------------------- the sources as sequences ---------------------- *)
\* the records of source i: what linereader yields from the whole file
SourceRecords(i) == linereader(files[i], ReaderInit, <<>>).recs

RECURSIVE Concat(_, _)
Concat(f, n) == IF n = 0 THEN <<>> ELSE Concat(f, n - 1) \o f[n]

\* the records of all sources, first source first
AllRecords == Concat([i \in Sources |-> SourceRecords(i)], NumSources)

\* the positions of AllRecords that repeat an earlier position
Repeats ==
  { k \in 1..Len(AllRecords) : \E j \in 1..(k - 1) : AllRecords[j] = AllRecords[k] }

Occurrences(rec) == { p \in 1..Len(out) : out[p].rec = rec }

SortedByTimestamp(recs) ==
  \A p, q \in 1..Len(recs) : p < q => int(recs[p][1]) <= int(recs[q][1])

SourcesSorted == \A i \in Sources : SortedByTimestamp(SourceRecords(i))

OutRecords == [p \in 1..Len(out) |-> out[p].rec]

(* -------------------------------- C1 ----------------------------------- *)
\* C1: when the merge has run to exhaustion over sources holding M records
\* of which D repeat an earlier triple, exactly M - D records have been
\* emitted: every triple of every source exactly once, and nothing else.
C1_MergeEmitsDistinctOnce ==
  pc = "done" =>
    /\ Len(out) = Len(AllRecords) - Cardinality(Repeats)
    /\ \A k \in 1..Len(AllRecords) : Cardinality(Occurrences(AllRecords[k])) = 1
    /\ \A p \in 1..Len(out) : \E k \in 1..Len(AllRecords) : AllRecords[k] = out[p].rec

C1_Witness ==
  /\ pc = "done"
  /\ Cardinality(Repeats) >= 1
  /\ Len(out) >= 2
  /\ \E i \in Sources : ~SortedByTimestamp(SourceRecords(i))

(* -------------------------------- C2 ----------------------------------- *)
\* C2: if every source is sorted by integer timestamp, the emitted sequence
\* is sorted by integer timestamp, in every state of the merge.
C2_SortedSourcesSortedOutput ==
  SourcesSorted => SortedByTimestamp(OutRecords)

\* sorted sources, two different timestamps emitted, and the second record
\* of a source skipped as a duplicate while its slot was refilled
C2_Witness ==
  /\ SourcesSorted
  /\ pc = "done"
  /\ Len(out) >= 2
  /\ int(out[1].rec[1]) < int(out[Len(out)].rec[1])
  /\ \E i \in Sources :
       /\ Len(pulled[i]) >= 2
       /\ \A p \in 1..Len(out) : out[p].rec = pulled[i][2].rec => out[p].src # i

(* -------------------------------- C3 ----------------------------------- *)
\* C3: with sorted sources, of two emitted records with the same integer
\* timestamp the one of the source listed first is emitted first.
C3_TieBreakByInputOrder ==
  SourcesSorted =>
    \A p, q \in 1..Len(out) :
      (p < q /\ int(out[p].rec[1]) = int(out[q].rec[1])) => out[p].src <= out[q].src

C3_Witness ==
  /\ SourcesSorted
  /\ \E p, q \in 1..Len(out) :
       /\ p < q
       /\ int(out[p].rec[1]) = int(out[q].rec[1])
       /\ out[p].src < out[q].src

(* -------------------------------- C4 ----------------------------------- *)
RECURSIVE WriteAll(_)
WriteAll(recs) ==
  IF Len(recs) = 0 THEN <<>> ELSE linewriter(Head(recs)) \o WriteAll(Tail(recs))

\* every line break of text but the last follows a backslash, the last one
\* does not
MarkerBeforeEveryBreakButLast(text) ==
  /\ Len(text) >= 1 /\ text[Len(text)] = NL
  /\ Len(text) >= 2 => text[Len(text) - 1] # BS
  /\ \A k \in 2..(Len(text) - 1) : text[k] = NL => text[k - 1] = BS
  /\ text[1] # NL

NewlineCount(s) == Cardinality({ k \in 1..Len(s) : s[k] = NL })

\* C5: every record linereader yields comes from k consecutive physical
\* lines, a header line and k-1 further lines, of which all but the last end
\* with a backslash; it is yielded when the k-th line is read, its payload
\* holds k-1 newlines and does not end with a backslash; the groups of
\* lines of the records of a source follow one another, one record each.
C5_ContinuationReconstruction ==
  \A i \in Sources :
    /\ \A n \in 1..Len(pulled[i]) :
         LET e == pulled[i][n]
             k == e.last - e.first + 1
         IN  /\ k >= 1 /\ e.first >= 1 /\ e.last <= rd[i].lno
             /\ e.first = IF n = 1 THEN 1 ELSE pulled[i][n - 1].last + 1
             /\ zh_line_re(files[i][e.first]) # None
             /\ \A j \in e.first..(e.last - 1) : endswith(files[i][j], BS)
             /\ ~endswith(files[i][e.last], BS)
             /\ NewlineCount(e.rec[3]) = k - 1
             /\ ~endswith(e.rec[3], BS)
    /\ rd[i].continuation =>
         /\ \A j \in hdr[i]..rd[i].lno : endswith(files[i][j], BS)
         /\ hdr[i] = IF pulled[i] = <<>> THEN 1
                     ELSE pulled[i][Len(pulled[i])].last + 1

\* a record of three physical lines has been yielded
C5_Witness ==
  \E i \in Sources : \E n \in 1..Len(pulled[i]) :
    /\ pulled[i][n].last - pulled[i][n].first + 1 = 3
    /\ NewlineCount(pulled[i][n].rec[3]) = 2

(* -------------------------------- C6 ----------------------------------- *)
Prefix(i, n) == SubSeq(files[i], 1, n)

FormatErrorReport ==
  (err # None /\ err.kind = "non-match") =>
    LET f == err.file IN
    /\ pc = "failed"
    /\ f = idx
    /\ err.line \in 1..Len(files[f])
    /\ zh_line_re(files[f][err.line]) = None
    /\ linereader(Prefix(f, err.line - 1), ReaderInit, <<>>)
         = [recs |-> [n \in 1..Len(pulled[f]) |-> pulled[f][n].rec],
            fail |-> FALSE]
    /\ linereader(Prefix(f, err.line), ReaderInit, <<>>).fail

\* C6: a line that is read outside continuation mode and does not match the
\* header pattern ends the run with an error that names the file and the
\* 1-based number of that physical line; the line yields no record, and no
\* record is emitted once the error is raised.
C6_FormatErrorIsFatal ==
  /\ []FormatErrorReport
  /\ [][err # None => (out' = out /\ pulled' = pulled)]_vars

\* the third physical line of a file fails after a continuation line
C6_Witness ==
  /\ err # None /\ err.kind = "non-match"
  /\ err.line = 3
  /\ endswith(files[err.file][1], BS)

(* -------------------------------- C7 ----------------------------------- *)
\* C7: when a file ends while its parser is in continuation mode, the only
\* step left is the failure naming that file: the accumulated record is not
\* yielded, and the source does not report an ordinary end of sequence.
C7_UnterminatedContinuation ==
  /\ \A i \in Sources :
       (rd[i].continuation /\ rd[i].lno = Len(files[i])) =>
         /\ idx = i
         /\ pc \in {"next", "failed"}
         /\ pc = "failed" => err = [kind |-> "incomplete", file |-> i, line |-> 0]
         /\ endswith(files[i][Len(files[i])], BS)
         /\ \A n \in 1..Len(pulled[i]) :
              pulled[i][n].rec # <<rd[i].datetime, rd[i].exetime, rd[i].contents>>
         /\ [n \in 1..Len(pulled[i]) |-> pulled[i][n].rec] = SourceRecords(i)
  /\ (err # None /\ err.kind = "incomplete") =>
       /\ rd[err.file].continuation
       /\ rd[err.file].lno = Len(files[err.file])

\* a source that has yielded a record fails with an incomplete continuation
C7_Witness ==
  /\ err # None /\ err.kind = "incomplete"
  /\ Len(pulled[err.file]) >= 1
  /\ pc = "failed"

(* -------------------------------- C8 ----------------------------------- *)
\* the records that have been made a pending head so far
Taken ==
  { out[p].rec : p \in 1..Len(out) } \cup
  { nexts[i] : i \in { j \in Sources : nexts[j] # None } }

\* C8 as claimed: two records whose timestamps and durations are equal as
\* integers and whose payloads are equal are never both emitted.
C8_Original ==
  \A p, q \in 1..Len(out) :
    (/\ p < q
     /\ int(out[p].rec[1]) = int(out[q].rec[1])
     /\ int(out[p].rec[2]) = int(out[q].rec[2])
     /\ out[p].rec[3] = out[q].rec[3]) => FALSE

\* C8 (amended): a record is suppressed if and only if the text of its
\* timestamp, of its duration and of its payload are all identical to those
\* of a record taken before; identical records are never both emitted.
C8_DuplicateIffSameText ==
  /\ (pc = "check" /\ x # None) => (myhash(x) \in dups <=> x \in Taken)
  /\ \A p, q \in 1..Len(out) : p < q => out[p].rec # out[q].rec

\* two records equal as integers but not as text have both been emitted,
\* and an identical one has been suppressed
C8_Witness ==
  /\ \E p, q \in 1..Len(out) :
       /\ p < q
       /\ int(out[p].rec[1]) = int(out[q].rec[1])
       /\ int(out[p].rec[2]) = int(out[q].rec[2])
       /\ out[p].rec[3] = out[q].rec[3]
       /\ out[p].rec[1] # out[q].rec[1]
  /\ Len(AllRecords) > Len(out)
  /\ pc = "done"

(* -------------------------------- C9 ----------------------------------- *)
RECURSIVE Join(_)
Join(ls) ==
  IF Len(ls) = 0 THEN <<>>
  ELSE IF Len(ls) = 1 THEN ls[1]
  ELSE ls[1] \o <<NL>> \o Join(Tail(ls))

\* C9 as claimed: no payload the parser yields holds a backslash right
\* before an embedded newline.
C9_Original ==
  \A i \in Sources : \A n \in 1..Len(pulled[i]) :
    LET c == pulled[i][n].rec[3] IN
    \A k \in 2..Len(c) : ~(c[k] = NL /\ c[k - 1] = BS)

\* C9 (amended): the payload the parser yields is the contents of the header
\* line and the following physical lines joined by newlines, markers
\* included: every embedded newline follows the marker backslash, and only
\* the end of the payload is free of a marker.
C9_MarkerRetained ==
  \A i \in Sources : \A n \in 1..Len(pulled[i]) :
    LET e == pulled[i][n]
        c == e.rec[3]
    IN  /\ c = Join(<<zh_line_re(files[i][e.first])[3]>>
                      \o SubSeq(files[i], e.first + 1, e.last))
        /\ \A k \in 1..Len(c) : c[k] = NL => (k >= 2 /\ c[k - 1] = BS)
        /\ ~endswith(c, BS)

\* a record with an embedded newline has been yielded
C9_Witness ==
  \E i \in Sources : \E n \in 1..Len(pulled[i]) :
    /\ NewlineCount(pulled[i][n].rec[3]) >= 1
    /\ pulled[i][n].last > pulled[i][n].first

(* -------------------------------- C10 ---------------------------------- *)
\* C10 as claimed: a run that ends in a fatal condition has written nothing.
C10_Original == pc = "failed" => written = <<>>

\* C10 (amended): a run that fails while the pending slots are first being
\* filled has written nothing; a run that fails later has written the records
\* emitted before the failure, each of them whole, and writes nothing more
\* once the error is raised.
C10_OutputUpToFailure ==
  /\ [](written = WriteAll(OutRecords))
  /\ []((pc = "failed" /\ phase = "init") => written = <<>>)
  /\ [](pc = "failed" => err # None)
  /\ [][err # None => written' = written]_vars

\* a run has failed after it has written a record
C10_Witness ==
  /\ pc = "failed"
  /\ phase = "loop"
  /\ Len(out) >= 1
  /\ written # <<>>

(* -------------------------------- C11 ---------------------------------- *)
\* C11: every file is opened while the pending slots are first filled,
\* before the first record is emitted; when some file cannot be opened, no
\* record is ever emitted and the run does not complete, and the failure to
\* open is raised during the first filling.
C11_AllOpenedBeforeFirstEmit ==
  /\ (Len(out) >= 1 \/ phase = "loop") => \A i \in Sources : gen[i] # "created"
  /\ (\E i \in Sources : store[i] = "missing") => (out = <<>> /\ pc # "done")
  /\ (err # None /\ err.kind = "io") =>
       /\ store[err.file] = "missing"
       /\ phase = "init"
       /\ pc = "failed"

\* the last file cannot be opened, after a record of the first file has
\* become a pending head
C11_Witness ==
  /\ err # None /\ err.kind = "io"
  /\ err.file = NumSources
  /\ nexts[1] # None
  /\ out = <<>>

(* -------------------------------- C12 ---------------------------------- *)
PulledRecords(i) == [n \in 1..Len(pulled[i]) |-> pulled[i][n].rec]

IsPrefix(a, b) == Len(a) <= Len(b) /\ SubSeq(b, 1, Len(a)) = a

\* C12: the stream filereader returns yields the lines of the file's logical
\* content from its first line on, for a compressed file as for a plain one;
\* for a plain file they are the lines of the bytes read as text; the
\* records parsed from the stream are those of the logical content.
C12_DetectionConsumesNothing ==
  \A i \in Sources :
    (gen[i] # "created" /\ store[i] # "missing") =>
      /\ stream[i] = files[i]
      /\ store[i] = "plain" =>
           stream[i] = SplitLines(StoredBytes(files[i], "plain"), <<>>, <<>>)
      /\ store[i] = "zstd" =>
           JoinLines(stream[i]) = Decompress(StoredBytes(files[i], "zstd"), 0).text
      /\ IsPrefix(PulledRecords(i), SourceRecords(i))
      /\ gen[i] = "finished" => PulledRecords(i) = SourceRecords(i)

\* a record of two physical lines has been parsed from a compressed file
\* that is read through the decompressing reader
C12_Witness ==
  \E i \in Sources :
    /\ store[i] = "zstd"
    /\ <<i, "reader">> \in handles
    /\ Len(pulled[i]) >= 1
    /\ pulled[i][1].last >= 2

(* -------------------------------- C13 ---------------------------------- *)
\* C13: at the end of every run, completed or failed, no handle the run has
\* opened remains open.
C13_AllHandlesReleased ==
  pc \in {"done", "failed"} => handles = {}

(* -------------------------------- C14 ---------------------------------- *)
Emitted == { out[p].rec : p \in 1..Len(out) }

\* C14 as claimed: the dedup set is exactly the set of the fingerprints of
\* the records emitted so far.
C14_Original == dups = { myhash(r) : r \in Emitted }

\* C14 (amended): a record's fingerprint is marked as seen when the record
\* becomes a pending head: the dedup set is exactly the set of the
\* fingerprints of the records emitted or held in a slot, it grows only by
\* the fingerprint of the record being stored, and never at an emission.
C14_SeenWhenStored ==
  /\ [](dups = { myhash(r) : r \in Taken })
  /\ [][dups' # dups =>
          /\ pc = "check" /\ x # None
          /\ nexts'[idx] = x
          /\ dups' = dups \cup { myhash(x) }
          /\ out' = out]_vars
  /\ [][out' # out => dups' = dups]_vars

\* a record that has not been emitted is pending with its fingerprint in
\* the dedup set, after another record was emitted
C14_Witness ==
  /\ Len(out) >= 1
  /\ \E i \in Sources :
       /\ nexts[i] # None
       /\ nexts[i] \notin Emitted
       /\ myhash(nexts[i]) \in dups

(* -------------------------------- C15 ---------------------------------- *)
\* C15: every emission yields the record of a non-empty slot whose integer
\* timestamp is at most that of every other non-empty slot, and of the slots
\* with that timestamp the one with the lowest index; a slot is selected
\* whenever some slot is non-empty.
C15_EmitsLowestSlot ==
  /\ [][out' # out =>
          LET e == out'[Len(out')] IN
          /\ pc = "select"
          /\ out' = Append(out, e)
          /\ e.src \in Sources
          /\ nexts[e.src] # None
          /\ e.rec = nexts[e.src]
          /\ \A j \in Sources : nexts[j] # None =>
               /\ int(e.rec[1]) <= int(nexts[j][1])
               /\ int(e.rec[1]) = int(nexts[j][1]) => e.src <= j]_vars
  /\ [](pc = "select" =>
          ((\E i \in Sources : nexts[i] # None) <=> LowestIdx(nexts) \in Sources))

\* a record of the second source has been emitted while the first slot held
\* a record with a greater timestamp, with a source that is not sorted
C15_Witness ==
  /\ phase = "loop" /\ pc = "next"
  /\ Len(out) >= 1
  /\ out[Len(out)].src = 2
  /\ nexts[1] # None
  /\ int(nexts[1][1]) > int(out[Len(out)].rec[1])
  /\ ~SourcesSorted

(* -------------------------------- C16 ---------------------------------- *)
\* the position of the first occurrence of rec in source i, 0 if none
FirstPos(i, rec) ==
  LET recs == SourceRecords(i)
      at   == { n \in 1..Len(recs) : recs[n] = rec }
  IN  IF at = {} THEN 0 ELSE CHOOSE n \in at : \A m \in at : n <= m

\* C16: the records emitted from one source appear in the output in the
\* order they have in that source, sorted or not; a source is pulled only
\* while its slot holds no record that is still to be emitted.
C16_SourceOrderPreserved ==
  /\ [](\A p \in 1..Len(out) : FirstPos(out[p].src, out[p].rec) >= 1)
  /\ [](\A p, q \in 1..Len(out) :
          (p < q /\ out[p].src = out[q].src) =>
            FirstPos(out[p].src, out[p].rec) < FirstPos(out[q].src, out[q].rec))
  /\ [][\A i \in Sources :
          pulled'[i] # pulled[i] => (nexts[i] = None \/ nexts[i] \in Emitted)]_vars

\* two records of a source that is not sorted have been emitted in the
\* order of the source, the greater timestamp first
C16_Witness ==
  \E p, q \in 1..Len(out) :
    /\ p < q
    /\ out[p].src = out[q].src
    /\ int(out[p].rec[1]) > int(out[q].rec[1])

(* -------------------------------- C17 ---------------------------------- *)
\* C17: a line read in continuation mode is appended to the payload after a
\* newline; it starts no record and raises no error, whether or not it
\* matches the header pattern; the record goes on exactly when the last
\* character of the line is a backslash, and is yielded otherwise.
C17_ContinuationAppends ==
  [][\A i \in Sources :
       (rd[i].continuation /\ rd'[i] # rd[i]) =>
         LET line   == stream[i][rd[i].lno + 1]
             c      == rd[i].contents \o <<NL>> \o line
             goeson == Len(line) >= 1 /\ line[Len(line)] = BS
         IN  /\ rd'[i].lno = rd[i].lno + 1
             /\ rd'[i].contents = c
             /\ rd'[i].datetime = rd[i].datetime
             /\ rd'[i].exetime = rd[i].exetime
             /\ rd'[i].continuation = goeson
             /\ hdr'[i] = hdr[i]
             /\ err' = err /\ pc' # "failed"
             /\ goeson => (pulled' = pulled /\ pc' = "next")
             /\ ~goeson =>
                  /\ x' = <<rd[i].datetime, rd[i].exetime, c>>
                  /\ Len(pulled'[i]) = Len(pulled[i]) + 1
                  /\ pulled'[i][Len(pulled'[i])].rec = x'
                  /\ pulled'[i][Len(pulled'[i])].first = hdr[i]]_vars

\* a record of three lines has been yielded whose second line ends with two
\* backslashes and whose third line matches the header pattern
C17_Witness ==
  \E i \in Sources : \E n \in 1..Len(pulled[i]) :
    LET e == pulled[i][n] IN
    /\ e.last = e.first + 2
    /\ files[i][e.first + 1] = <<BS, BS>>
    /\ zh_line_re(files[i][e.last]) # None
    /\ NewlineCount(e.rec[3]) = 2

(* -------------------------------- C18 ---------------------------------- *)
\* every file can be opened and parses without an assertion failure
WellFormed ==
  \A i \in Sources :
    store[i] # "missing" /\ ~linereader(files[i], ReaderInit, <<>>).fail

Refilling(i) ==
  /\ phase = "loop"
  /\ pc \in {"next", "check", "failed"}
  /\ i = idx

\* the slots that hold a record waiting to be emitted
PendingSlots == { i \in Sources : nexts[i] # None /\ ~Refilling(i) }

\* C19: in every reachable state the records in the non-empty pending slots
\* are pairwise distinct as triples, each differs from every record already
\* emitted, and the fingerprint of each is in the dedup set; a record that
\* heads two sources is the pending head of one of them only.
C19_PendingDistinct ==
  \A i \in PendingSlots :
    /\ \A j \in PendingSlots : i # j => nexts[i] # nexts[j]
    /\ nexts[i] \notin Emitted
    /\ myhash(nexts[i]) \in dups

\* two sources start with the same record: both slots are filled, the
\* second with the record after the shared one, which was pulled and dropped
C19_Witness ==
  /\ pc = "select"
  /\ Len(pulled[1]) >= 1
  /\ Len(pulled[2]) >= 2
  /\ pulled[2][1].rec = pulled[1][1].rec
  /\ nexts[1] = pulled[1][1].rec
  /\ nexts[2] = pulled[2][2].rec

(* -------------------------------- C20 ---------------------------------- *)
\* the records of the file that is given as every input
SelfF == SourceRecords(1)

\* the file can be read, is sorted by timestamp and has no record twice
SelfSortedNoDuplicates ==
  /\ WellFormed
  /\ SortedByTimestamp(SelfF)
  /\ \A m, n \in 1..Len(SelfF) : SelfF[m] = SelfF[n] => m = n

\* no two records have the same timestamp
DistinctTimestamps(recs) ==
  \A m, n \in 1..Len(recs) : int(recs[m][1]) = int(recs[n][1]) => m = n

\* C20 as claimed: merging a sorted, duplicate-free F with itself emits
\* exactly the sequence F, records that share a timestamp in the order of F.
C20_Original ==
  (pc = "done" /\ SelfSortedNoDuplicates) => OutRecords = SelfF

\* C20 (amended): merging a sorted, duplicate-free F with itself emits every
\* record of F exactly once, in ascending order of timestamp; the output is
\* the sequence F when the timestamps of F are pairwise different.
C20_SelfMergeSorted ==
  (pc = "done" /\ SelfSortedNoDuplicates) =>
    /\ Len(OutRecords) = Len(SelfF)
    /\ Emitted = { SelfF[n] : n \in 1..Len(SelfF) }
    /\ SortedByTimestamp(OutRecords)
    /\ DistinctTimestamps(SelfF) => OutRecords = SelfF

\* a sorted, duplicate-free file of three records was merged with itself:
\* the second source has given a record of which the first had dropped a
\* copy, and the output is another sequence than the file
C20_Witness ==
  /\ pc = "done"
  /\ SelfSortedNoDuplicates
  /\ \A i \in Sources : files[i] = files[1]
  /\ Len(SelfF) = 3
  /\ \E p \in 1..Len(out) : out[p].src = 2
  /\ OutRecords # SelfF

====
